---- MODULE Spec2Model ----
(***************************************************************************)
(* Model of the event layer of mdln: the per-object listeners registry     *)
(* (Listenable.listen / Listenable.unlisten) and the capture -> at-target  *)
(* -> bubble traversal (dispatchEvent / fireListeners) of                  *)
(* src/src/events/Listenable.ts.                                           *)
(*                                                                         *)
(* Execution is single-threaded and synchronous, so the program is a call  *)
(* stack: `stack` holds one frame per dispatchEvent call in progress, the  *)
(* last one being the innermost. A listener callback is user code: while   *)
(* a frame is inside `listener.callback.call`, the callback may call       *)
(* event.preventDefault, event.stopPropagation, and listen, unlisten and   *)
(* dispatch of any object, in any order, before it returns.                *)
(***************************************************************************)
EXTENDS Integers, Sequences, FiniteSets, TLC

VARIABLES
  listeners,   \* internal.listeners: node -> (event type -> array of EventListener)
  stack,       \* dispatchEvent calls in progress, innermost last
  last,        \* what the dispatch that returned most recently returned and did
  onceCalls,   \* history: invocations of a once listener since it was last listened
  calls        \* history: number of listen/unlisten/dispatch calls made so far

vars == <<listeners, stack, last, onceCalls, calls>>

-----------------------------------------------------------------------------
(* Bounds of the model. *)

\* dispatch calls nested inside one another (a callback calling dispatch)
MaxDepth == 2
\* listen, unlisten and dispatch calls of one behaviour
MaxCalls == 4

(* The objects: "C" is owned by "P", "P" by "R". *)
Nodes == {"R", "P", "C"}
Types == {"x"}
Callbacks == {"f", "g"}

(* EventPhase *)
NONE == "NONE"
CAPTURING_PHASE == "CAPTURING_PHASE"
AT_TARGET == "AT_TARGET"
BUBBLING_PHASE == "BUBBLING_PHASE"

(* getAncestors(node): the owners of node, nearest first, root last. *)
getAncestors(node) ==
  CASE node = "C" -> <<"P", "R">>
    [] node = "P" -> <<"R">>
    [] OTHER -> <<>>

(* The options objects a caller can pass to listen: every combination. *)
ListenOptions == [capture : BOOLEAN, passive : BOOLEAN, once : BOOLEAN]

(* The options a program uses that registers no passive listener, no once *)
(* listener, neither. *)
OnceOptions == {opts \in ListenOptions : ~opts.passive}
PassiveOptions == {opts \in ListenOptions : ~opts.once}
CaptureOptions == OnceOptions \cap PassiveOptions

-----------------------------------------------------------------------------
(* EventListener and the arrays of them *)

EventListener(callback, capture, passive, removed, once) ==
  [callback |-> callback, capture |-> capture, passive |-> passive,
   removed |-> removed, once |-> once]

\* Array.prototype.splice(i, 1), i counted from 1
Splice(arr, i) == [k \in 1..(Len(arr) - 1) |-> IF k < i THEN arr[k] ELSE arr[k + 1]]

\* Map.prototype.set / delete / has on a function with a variable domain
MapSet(m, key, val) == [k \in (DOMAIN m) \cup {key} |-> IF k = key THEN val ELSE m[k]]
MapDelete(m, key) == [k \in (DOMAIN m) \ {key} |-> m[k]]
MapHas(m, key) == key \in DOMAIN m

\* faulty variant: the capture flag is not compared
SameListenerAnyCapture(l, callback, capture) ==
  /\ ~l.removed
  /\ l.callback = callback

\* the test of the loops of listen and unlisten
SameListener(l, callback, capture) ==
  /\ ~l.removed
  /\ l.callback = callback
  /\ l.capture = capture

-----------------------------------------------------------------------------
(* Listenable.listen on the listeners map of one object *)

\* the loop that finds and updates the equivalent listeners
listenUpdate(arr, callback, opts) ==
  [k \in 1..Len(arr) |->
     IF SameListener(arr[k], callback, opts.capture)
     THEN [arr[k] EXCEPT !.passive = opts.passive, !.once = opts.once]
     ELSE arr[k]]

listenFound(arr, callback, opts) ==
  \E k \in 1..Len(arr) : SameListener(arr[k], callback, opts.capture)

\* faulty variant: listen without its search for the registered listener
listenArrayAlwaysPush(arr, callback, opts) ==
  Append(arr, EventListener(callback, opts.capture, opts.passive, FALSE, opts.once))

\* faulty variant: a new listener is put at the head of the array
listenArrayUnshift(arr, callback, opts) ==
  IF listenFound(arr, callback, opts)
  THEN listenUpdate(arr, callback, opts)
  ELSE <<EventListener(callback, opts.capture, opts.passive, FALSE, opts.once)>> \o arr

\* the array of eventType after listen
listenArray(arr, callback, opts) ==
  IF listenFound(arr, callback, opts)
  THEN listenUpdate(arr, callback, opts)
  ELSE Append(arr, EventListener(callback, opts.capture, opts.passive, FALSE, opts.once))

\* the listeners map of the object after listen(eventType, callback, opts)
listen(listenersMap, eventType, callback, opts) ==
  LET arr == IF MapHas(listenersMap, eventType) THEN listenersMap[eventType] ELSE <<>>
  IN MapSet(listenersMap, eventType, listenArray(arr, callback, opts))

-----------------------------------------------------------------------------
(* Listenable.unlisten on the listeners map of one object *)

\* faulty variant: the listener is marked removed and left in the array
unlistenLoopMarksOnly(arr, i, callback, capture) ==
  [k \in 1..Len(arr) |->
     IF k >= i /\ SameListener(arr[k], callback, capture)
     THEN [arr[k] EXCEPT !.removed = TRUE]
     ELSE arr[k]]

\* the loop of unlisten, from index i on: splice shifts the rest down by one
\* and the loop goes on to i + 1
RECURSIVE unlistenLoop(_, _, _, _)
unlistenLoop(arr, i, callback, capture) ==
  IF i > Len(arr) THEN arr
  ELSE IF SameListener(arr[i], callback, capture)
       THEN unlistenLoop(Splice(arr, i), i + 1, callback, capture)
       ELSE unlistenLoop(arr, i + 1, callback, capture)

\* faulty variant: unlisten without its delete of the array left empty
unlistenKeepsEmpty(listenersMap, eventType, callback, capture) ==
  IF ~MapHas(listenersMap, eventType) THEN listenersMap
  ELSE MapSet(listenersMap, eventType,
              unlistenLoop(listenersMap[eventType], 1, callback, capture))

\* the listeners map of the object after unlisten(eventType, callback, {capture})
unlisten(listenersMap, eventType, callback, capture) ==
  IF ~MapHas(listenersMap, eventType) THEN listenersMap
  ELSE LET arr == unlistenLoop(listenersMap[eventType], 1, callback, capture)
       IN IF Len(arr) = 0
          THEN MapDelete(listenersMap, eventType)
          ELSE MapSet(listenersMap, eventType, arr)

-----------------------------------------------------------------------------
(* The frame of one dispatchEvent call *)

\* `listener` of a frame that is not inside a callback
NoListener == EventListener("", FALSE, FALSE, TRUE, FALSE)

\* new EventBinder(EventPhase.NONE, node, node)
EventBinder(phase, target, handler) ==
  [phase |-> phase, target |-> target, handler |-> handler,
   passive |-> FALSE, stopped |-> FALSE]

\* new Event(type, binder, scope): what the event holds itself
Event(type) == [type |-> type, prevented |-> FALSE]

NoFlags == [stopped |-> FALSE, prevented |-> FALSE]

\* dispatchEvent at its first statement after the constructors:
\*   loc      where dispatchEvent is: "capturing", "at_target", "target_bubble",
\*            "bubbling", "return", or "throw" when _getListenersMaps has
\*            thrown LISTENERS_MAP_MISSED
\*   i        the index of the ancestors loops, from 1
\*   fire     where fireListeners is: "none" (not called), "loop" (at the
\*            head of its for loop), "callback" (inside listener.callback.call)
\*   capture, j, listener   the parameter and the locals of fireListeners
\*   attached whether the array `listeners` held by fireListeners is still the
\*            one in the listeners map (an array deleted from the map is empty
\*            and nothing can reach it to fill it again)
\*   orphan   the array `listeners` held by fireListeners when the listeners
\*            map it was in has been deleted by [destruct]: the array
\*            itself is as it was, and nothing can reach it any more
\*   fired    history: the invocations made so far, each with the listener
\*            as it was when invoked
\*   before   history: event.stopped and event.prevented as they were when
\*            the callback that is running was called
\*   visits   history: the calls of fireListeners made so far, each with the
\*            listeners of the array that matched its capture parameter when
\*            it was called
\*   calling  history: the methods of the event ("stop", "prevent") the
\*            callback that is running has called so far
\*   stops    history: the calls of event.stopPropagation made so far, each
\*            with the phase and whether the listener was passive when
\*            invoked
\*   reentered  history: a callback called listen, unlisten or dispatch
\*            while this dispatchEvent was running
\*   pending  history: the listeners the callbacks of this dispatchEvent have
\*            registered for the fireListeners call that is running or for
\*            one still to come, and that have been neither invoked nor
\*            unlistened since
NewFrame(node, type) ==
  [node |-> node, type |-> type,
   binder |-> EventBinder(NONE, node, node), event |-> Event(type),
   loc |-> "capturing", i |-> Len(getAncestors(node)),
   fire |-> "none", capture |-> FALSE, j |-> 0, attached |-> FALSE,
   orphan |-> << >>, listener |-> NoListener,
   fired |-> << >>, before |-> NoFlags, visits |-> << >>, calling |-> {}, stops |-> {}, reentered |-> FALSE,
   pending |-> {}]

Depth == Len(stack)
Top == stack[Depth]
InCallback == Depth > 0 /\ Top.fire = "callback"

\* listen, unlisten and dispatch are called by the program between
\* dispatches or by a callback that is running
CanCall == calls < MaxCalls /\ (Depth = 0 \/ InCallback)

\* `last` describes the step just taken: kind is "relisten" (a listen call
\* found its listener, at index `at`, and updated it), "removed" (an unlisten
\* call removed the listener at index `at`), "return" (a dispatchEvent
\* returned `result`, `frame` being its frame at the return statement), or
\* "none" (any other step)
NoLast ==
  [kind |-> "none", at |-> 0, result |-> FALSE, frame |-> NewFrame("", ""), node |-> ""]

\* Error(ErrorDescription.LISTENERS_MAP_MISSED) has been thrown: the listeners
\* map of node is missing; fr is the dispatchEvent that threw, if one did
Missed(node, fr) == [NoLast EXCEPT !.kind = "error", !.node = node, !.frame = fr]

\* the key of a listener in the history of once invocations
Key(node, type, callback, capture) ==
  [node |-> node, type |-> type, callback |-> callback, capture |-> capture]

\* history: the place of fireListeners(handler = node, capture) among the
\* calls dispatchEvent makes for target, 0 when it makes none
PassIndex(target, node, capture) ==
  LET ancestors == getAncestors(target)
      n == Len(ancestors)
  IN IF node = target THEN (IF capture THEN n + 1 ELSE n + 2)
     ELSE IF \E i \in 1..n : ancestors[i] = node
     THEN LET i == CHOOSE i \in 1..n : ancestors[i] = node
          IN IF capture THEN n - i + 1 ELSE n + 2 + i
     ELSE 0

Awaiting(node, callback, capture) ==
  [handler |-> node, callback |-> callback, capture |-> capture]

\* history: the callback of fr registers a new listener
awaited(fr, node, type, callback, opts) ==
  IF /\ fr.fire = "callback"
     /\ fr.type = type
     /\ PassIndex(fr.node, node, opts.capture)
          >= PassIndex(fr.node, fr.binder.handler, fr.capture)
  THEN [fr EXCEPT !.pending = @ \cup {Awaiting(node, callback, opts.capture)}]
  ELSE fr

\* history: the listener is unlistened
forgotten(fr, node, type, callback, capture) ==
  IF fr.type = type
  THEN [fr EXCEPT !.pending = @ \ {Awaiting(node, callback, capture)}]
  ELSE fr

-----------------------------------------------------------------------------
(* `listener` of a frame is a reference to an object of the array: a write *)
(* to the object is seen through every reference.                          *)

aliasListen(fr, node, type, callback, opts) ==
  IF /\ fr.fire = "callback"
     /\ fr.binder.handler = node
     /\ fr.type = type
     /\ SameListener(fr.listener, callback, opts.capture)
  THEN [fr EXCEPT !.listener.passive = opts.passive, !.listener.once = opts.once]
  ELSE fr

aliasUnlisten(fr, node, type, callback, capture, deleted) ==
  IF fr.fire # "none" /\ fr.binder.handler = node /\ fr.type = type
  THEN [fr EXCEPT
          !.listener.removed = @ \/ SameListener(fr.listener, callback, capture),
          !.attached = @ /\ ~deleted]
  ELSE fr

\* the stack after node.unlisten(type, callback, {capture}) on the maps regs
unlistenStack(stk, regs, node, type, callback, capture) ==
  LET deleted == /\ MapHas(regs[node], type)
                 /\ ~MapHas(unlisten(regs[node], type, callback, capture), type)
  IN [d \in 1..Len(stk) |->
        forgotten(aliasUnlisten(stk[d], node, type, callback, capture, deleted),
                  node, type, callback, capture)]

-----------------------------------------------------------------------------
(* fireListeners *)

\* fireListeners has returned: dispatchEvent goes on after the call
afterFire(fr) ==
  LET out == [fr EXCEPT !.fire = "none", !.capture = FALSE, !.j = 0,
                        !.attached = FALSE, !.orphan = << >>,
                        !.listener = NoListener]
  IN CASE fr.loc = "capturing" -> [out EXCEPT !.i = fr.i - 1]
       [] fr.loc = "at_target" -> [out EXCEPT !.loc = "target_bubble"]
       [] fr.loc = "target_bubble" -> [out EXCEPT !.loc = "bubbling", !.i = 1]
       [] OTHER -> [out EXCEPT !.i = fr.i + 1]

\* _getListenersMaps(node) throws when internal.listeners has no map of node
getListenersMapsThrows(regs, node) == ~MapHas(regs, node)

\* faulty variant: a missing listeners map is not looked for
enterFireUnchecked(fr, regs, capture) ==
  LET has == /\ MapHas(regs, fr.binder.handler)
             /\ MapHas(regs[fr.binder.handler], fr.type)
      Matches(l) == l.capture = capture /\ ~l.removed
      visit == [handler |-> fr.binder.handler, phase |-> fr.binder.phase,
                capture |-> capture,
                missed |-> getListenersMapsThrows(regs, fr.binder.handler),
                expect |-> IF has
                           THEN SelectSeq(regs[fr.binder.handler][fr.type], Matches)
                           ELSE << >>]
      in == [fr EXCEPT !.visits = Append(@, visit)]
  IN IF has
     THEN [in EXCEPT !.fire = "loop", !.capture = capture, !.j = 1, !.attached = TRUE]
     ELSE afterFire(in)

\* fireListeners(binder, event, capture) is called: it gets the listeners
\* map of event.handler, or throws; then it gets the array of event.type,
\* and returns at once when there is none
enterFire(fr, regs, capture) ==
  LET missed == getListenersMapsThrows(regs, fr.binder.handler)
      has == ~missed /\ MapHas(regs[fr.binder.handler], fr.type)
      Matches(l) == l.capture = capture /\ ~l.removed
      visit == [handler |-> fr.binder.handler, phase |-> fr.binder.phase,
                capture |-> capture, missed |-> missed,
                expect |-> IF has
                           THEN SelectSeq(regs[fr.binder.handler][fr.type], Matches)
                           ELSE << >>]
      in == [fr EXCEPT !.visits = Append(@, visit)]
  IN IF missed THEN [in EXCEPT !.loc = "throw"]
     ELSE IF has
     THEN [in EXCEPT !.fire = "loop", !.capture = capture, !.j = 1, !.attached = TRUE]
     ELSE afterFire(in)

\* the array fireListeners iterates, as it is now
FireArray(fr, regs) ==
  IF fr.attached THEN regs[fr.binder.handler][fr.type] ELSE fr.orphan

\* faulty variant: the loop does not look at binder.stopped
FiresWhenStopped(fr, l) ==
  /\ l.capture = fr.capture
  /\ ~l.removed

\* the condition of the if in the loop of fireListeners
Fires(fr, l) ==
  /\ l.capture = fr.capture
  /\ ~l.removed
  /\ ~fr.binder.stopped

\* faulty variant: the binder is never aligned
alignBinderNever(binder, l) == binder

\* faulty variant: the binder is made passive and never made active again
alignBinderOnlyToPassive(binder, l) ==
  IF l.passive THEN [binder EXCEPT !.passive = TRUE] ELSE binder

\* "align binder"
alignBinder(binder, l) ==
  IF binder.passive # l.passive THEN [binder EXCEPT !.passive = l.passive] ELSE binder

\* the frame is at the head of the loop, at a listener that fires
AtListener(fr, regs) ==
  /\ fr.fire = "loop"
  /\ fr.j <= Len(FireArray(fr, regs))
  /\ Fires(fr, FireArray(fr, regs)[fr.j])

-----------------------------------------------------------------------------
(* dispatchEvent *)

\* faulty variant: the capturing cycle visits the ancestors from the parent up
capturingStepParentFirst(fr, regs) ==
  IF fr.i >= 1
  THEN enterFire([fr EXCEPT !.binder.phase = CAPTURING_PHASE,
                            !.binder.handler =
                              getAncestors(fr.node)[Len(getAncestors(fr.node)) + 1 - fr.i]],
                 regs, TRUE)
  ELSE [fr EXCEPT !.loc = "at_target"]

\* the capturing phase cycle: ancestors[i] from the root down to the parent
capturingStep(fr, regs) ==
  IF fr.i >= 1
  THEN enterFire([fr EXCEPT !.binder.phase = CAPTURING_PHASE,
                            !.binder.handler = getAncestors(fr.node)[fr.i]],
                 regs, TRUE)
  ELSE [fr EXCEPT !.loc = "at_target"]

\* faulty variant: the phase is not set at the target
atTargetStepKeepsPhase(fr, regs) ==
  IF ~fr.binder.stopped
  THEN enterFire([fr EXCEPT !.binder.handler = fr.node], regs, TRUE)
  ELSE [fr EXCEPT !.loc = "target_bubble"]

\* capturing at target if the event was not stopped
atTargetStep(fr, regs) ==
  IF ~fr.binder.stopped
  THEN enterFire([fr EXCEPT !.binder.phase = AT_TARGET,
                            !.binder.handler = fr.node], regs, TRUE)
  ELSE [fr EXCEPT !.loc = "target_bubble"]

\* bubbling at target if the event was not stopped
targetBubbleStep(fr, regs) ==
  IF ~fr.binder.stopped
  THEN enterFire(fr, regs, FALSE)
  ELSE [fr EXCEPT !.loc = "bubbling", !.i = 1]

\* the bubbling phase cycle: ancestors[i] from the parent up to the root
bubblingStep(fr, regs) ==
  IF ~fr.binder.stopped /\ fr.i <= Len(getAncestors(fr.node))
  THEN enterFire([fr EXCEPT !.binder.phase = BUBBLING_PHASE,
                            !.binder.handler = getAncestors(fr.node)[fr.i]],
                 regs, FALSE)
  ELSE [fr EXCEPT !.loc = "return", !.binder.phase = NONE]

\* dispatchEvent and fireListeners run on, with the listeners maps regs, up
\* to the next listener that fires or to the return statement of
\* dispatchEvent: nothing else runs in between
RECURSIVE run(_, _)
run(fr, regs) ==
  IF fr.fire = "loop"
  THEN IF fr.j > Len(FireArray(fr, regs)) THEN run(afterFire(fr), regs)
       ELSE IF Fires(fr, FireArray(fr, regs)[fr.j]) THEN fr
       ELSE run([fr EXCEPT !.j = @ + 1], regs)
  ELSE CASE fr.loc = "capturing" -> run(capturingStep(fr, regs), regs)
         [] fr.loc = "at_target" -> run(atTargetStep(fr, regs), regs)
         [] fr.loc = "target_bubble" -> run(targetBubbleStep(fr, regs), regs)
         [] fr.loc = "bubbling" -> run(bubblingStep(fr, regs), regs)
         [] OTHER -> fr

\* faulty variant: the negation is forgotten
dispatchResultNegated(fr) == fr.binder.stopped

\* faulty variant: the result is what the doc comment says, false when prevented too
dispatchResultPrevented(fr) == ~(fr.binder.stopped \/ fr.event.prevented)

\* what dispatchEvent returns
dispatchResult(fr) == ~fr.binder.stopped

\* history: the invocation of listener l by frame fr
Invocation(fr, l, oc) ==
  [handler |-> fr.binder.handler, phase |-> fr.binder.phase, listener |-> l,
   again |-> l.once /\ Key(fr.binder.handler, fr.type, l.callback, l.capture) \in oc]

\* listener.callback.call(undefined, event) is entered
invoke(fr, regs, oc) ==
  LET l == FireArray(fr, regs)[fr.j]
  IN [fr EXCEPT !.binder = alignBinder(@, l), !.fire = "callback",
                !.listener = l, !.fired = Append(@, Invocation(fr, l, oc)),
                !.before = [stopped |-> fr.binder.stopped,
                            prevented |-> fr.event.prevented],
                !.pending = @ \ {Awaiting(fr.binder.handler, l.callback, l.capture)}]

\* The innermost dispatchEvent, stk[Len(stk)], runs on with the listeners
\* maps regs: it enters a callback, or it returns to its caller, or the
\* error thrown by _getListenersMaps leaves it (dispatch has try / finally
\* and no catch) and reaches its caller.
Resume(stk, regs, oc) ==
  LET d == Len(stk)
      fr == run(stk[d], regs)
  IN IF AtListener(fr, regs)
     THEN LET l == FireArray(fr, regs)[fr.j] IN
          /\ stack' = [stk EXCEPT ![d] = invoke(fr, regs, oc)]
          /\ onceCalls' = IF l.once
                          THEN oc \cup {Key(fr.binder.handler, fr.type, l.callback, l.capture)}
                          ELSE oc
          /\ last' = NoLast
     ELSE /\ stack' = SubSeq(stk, 1, d - 1)
          /\ onceCalls' = oc
          /\ last' = IF fr.loc = "throw"
                     THEN Missed(fr.binder.handler, fr)
                     ELSE [NoLast EXCEPT !.kind = "return", !.frame = fr,
                                         !.result = dispatchResult(fr)]

-----------------------------------------------------------------------------
(* Listenable.listen, Listenable.unlisten, Listenable.dispatch *)

\* history: a callback of the frame, or of a dispatch it nests, makes a call
Reentered(fr) == [fr EXCEPT !.reentered = TRUE]

\* history: the index of the live listener (callback, capture) in the array
\* of type of the listeners map m, 0 when there is none
IndexOf(m, type, callback, capture) ==
  IF MapHas(m, type) /\ \E k \in 1..Len(m[type]) : SameListener(m[type][k], callback, capture)
  THEN CHOOSE k \in 1..Len(m[type]) : SameListener(m[type][k], callback, capture)
  ELSE 0

\* listen and unlisten throw before they change anything when the object has
\* no listeners map
Throws(node) ==
  /\ ~MapHas(listeners, node)
  /\ stack' = [d \in 1..Depth |-> Reentered(stack[d])]
  /\ last' = Missed(node, NewFrame("", ""))
  /\ calls' = calls + 1
  /\ UNCHANGED <<listeners, onceCalls>>

Listen(node, type, callback, opts) ==
  /\ CanCall
  /\ \/ Throws(node)
     \/ /\ MapHas(listeners, node)
        /\ listeners' = [listeners EXCEPT ![node] = listen(@, type, callback, opts)]
        /\ stack' = [d \in 1..Depth |->
                       LET fr == aliasListen(Reentered(stack[d]), node, type, callback, opts)
                       IN IF d = Depth /\ IndexOf(listeners[node], type, callback, opts.capture) = 0
                          THEN awaited(fr, node, type, callback, opts)
                          ELSE fr]
        /\ onceCalls' = onceCalls \ {Key(node, type, callback, opts.capture)}
        /\ calls' = calls + 1
        /\ last' = LET at == IndexOf(listeners[node], type, callback, opts.capture)
                    IN IF at > 0 THEN [NoLast EXCEPT !.kind = "relisten", !.at = at]
                       ELSE NoLast

Unlisten(node, type, callback, capture) ==
  /\ CanCall
  /\ \/ Throws(node)
     \/ /\ MapHas(listeners, node)
        /\ listeners' = [listeners EXCEPT ![node] = unlisten(@, type, callback, capture)]
        /\ stack' = unlistenStack([d \in 1..Depth |-> Reentered(stack[d])],
                                  listeners, node, type, callback, capture)
        /\ onceCalls' = onceCalls \ {Key(node, type, callback, capture)}
        /\ calls' = calls + 1
        /\ last' = LET at == IndexOf(listeners[node], type, callback, capture)
                    IN IF at > 0 THEN [NoLast EXCEPT !.kind = "removed", !.at = at]
                       ELSE NoLast

\* faulty variant: a dispatch made from a callback starts with the stopped
\* and prevented flags of the dispatch that is running
DispatchSharedBinder(node, type) ==
  /\ CanCall
  /\ Depth < MaxDepth
  /\ Resume(Append([d \in 1..Depth |-> Reentered(stack[d])],
                   [NewFrame(node, type) EXCEPT
                      !.binder.stopped = Depth > 0 /\ Top.binder.stopped,
                      !.event.prevented = Depth > 0 /\ Top.event.prevented]),
            listeners, onceCalls)
  /\ calls' = calls + 1
  /\ UNCHANGED listeners

Dispatch(node, type) ==
  /\ CanCall
  /\ Depth < MaxDepth
  /\ Resume(Append([d \in 1..Depth |-> Reentered(stack[d])], NewFrame(node, type)),
            listeners, onceCalls)
  /\ calls' = calls + 1
  /\ UNCHANGED listeners

\* the callback returns: a once listener is unlistened (which throws when
\* the listeners map of the object is gone), i++, and the loop goes on
CallbackReturn ==
  /\ InCallback
  /\ LET fr == Top
         node == fr.binder.handler
         l == fr.listener
         next == [fr EXCEPT !.fire = "loop", !.j = @ + 1, !.listener = NoListener,
                            !.calling = {}, !.before = NoFlags]
         stk == [stack EXCEPT ![Depth] = next]
     IN IF l.once /\ ~MapHas(listeners, node)
        THEN /\ stack' = SubSeq(stack, 1, Depth - 1)
             /\ last' = Missed(node, next)
             /\ UNCHANGED <<listeners, onceCalls>>
        ELSE IF l.once
        THEN LET regs == [listeners EXCEPT
                            ![node] = unlisten(@, fr.type, l.callback, fr.capture)]
             IN /\ listeners' = regs
                /\ Resume(unlistenStack(stk, listeners, node, fr.type, l.callback, fr.capture),
                          regs,
                          onceCalls \ {Key(node, fr.type, l.callback, fr.capture)})
        ELSE /\ listeners' = listeners
             /\ Resume(stk, listeners, onceCalls)
  /\ UNCHANGED calls

\* the callback that is running does not catch the error a call it made has
\* just thrown: the error leaves fireListeners and dispatchEvent, which
\* catch nothing, and reaches the caller of dispatch
Uncaught ==
  /\ InCallback
  /\ last.kind = "error"
  /\ stack' = SubSeq(stack, 1, Depth - 1)
  /\ last' = Missed(last.node, Top)
  /\ UNCHANGED <<listeners, onceCalls, calls>>

\* a running fireListeners keeps the array it got from the listeners map
\* that [destruct] deletes
orphaned(fr, regs, node) ==
  IF fr.fire # "none" /\ fr.binder.handler = node /\ fr.attached
  THEN [fr EXCEPT !.attached = FALSE, !.orphan = regs[node][fr.type]]
  ELSE fr

\* Listenable[destruct]: internal.listeners.delete(this)
Destruct(node) ==
  /\ CanCall
  /\ MapHas(listeners, node)
  /\ listeners' = MapDelete(listeners, node)
  /\ stack' = [d \in 1..Depth |-> orphaned(Reentered(stack[d]), listeners, node)]
  /\ calls' = calls + 1
  /\ last' = NoLast
  /\ UNCHANGED onceCalls

-----------------------------------------------------------------------------
(* Event.stopPropagation and Event.preventDefault, called by the callback  *)
(* that is running on the event it was given                               *)

\* faulty variant: stopPropagation also sets prevented
stopPropagationPrevents(fr) ==
  [fr EXCEPT !.binder.stopped = @ \/ ~fr.binder.passive,
             !.event.prevented = @ \/ ~fr.binder.passive]

stopPropagation(fr) ==
  [fr EXCEPT !.binder.stopped = @ \/ ~fr.binder.passive]

preventDefault(fr) ==
  [fr EXCEPT !.event.prevented = @ \/ ~fr.binder.passive]

\* the listener whose callback the frame is running, as it was when invoked
Running(fr) == fr.fired[Len(fr.fired)].listener

\* history: the callback that is running calls a method of the event
Called(fr, method) ==
  [fr EXCEPT !.calling = @ \cup {method},
             !.stops = IF method = "stop"
                       THEN @ \cup {[phase |-> fr.binder.phase,
                                      passive |-> Running(fr).passive]}
                       ELSE @]

StopPropagation ==
  /\ InCallback
  /\ stack' = [stack EXCEPT ![Depth] = Called(stopPropagation(@), "stop")]
  /\ last' = NoLast
  /\ UNCHANGED <<listeners, onceCalls, calls>>

PreventDefault ==
  /\ InCallback
  /\ stack' = [stack EXCEPT ![Depth] = Called(preventDefault(@), "prevent")]
  /\ last' = NoLast
  /\ UNCHANGED <<listeners, onceCalls, calls>>

-----------------------------------------------------------------------------
Init ==
  /\ listeners = [n \in Nodes |-> << >>]
  /\ stack = << >>
  /\ last = NoLast
  /\ onceCalls = {}
  /\ calls = 0

(* The program of Spec works on one object, "C", whose owners "P" and "R"  *)
(* have no listeners: it calls listen (once or not, capture or not),       *)
(* unlisten and dispatch, between dispatches and from inside the           *)
(* callbacks, which may also call event.stopPropagation.                   *)
Next ==
  \/ \E t \in Types, cb \in Callbacks, opts \in OnceOptions :
       Listen("C", t, cb, opts)
  \/ \E t \in Types, cb \in Callbacks, capture \in BOOLEAN :
       Unlisten("C", t, cb, capture)
  \/ \E t \in Types : Dispatch("C", t)
  \/ CallbackReturn
  \/ StopPropagation

Spec == Init /\ [][Next]_vars

(* The program of SpecTree works on the three objects: it calls listen     *)
(* (capture or not), unlisten and dispatch of any of them between          *)
(* dispatches; its callbacks call only the methods of the event.           *)
NextTree ==
  \/ \E n \in Nodes, t \in Types, cb \in Callbacks, opts \in CaptureOptions :
       Depth = 0 /\ Listen(n, t, cb, opts)
  \/ \E n \in Nodes, t \in Types, cb \in Callbacks, capture \in BOOLEAN :
       Depth = 0 /\ Unlisten(n, t, cb, capture)
  \/ \E n \in Nodes, t \in Types : Depth = 0 /\ Dispatch(n, t)
  \/ CallbackReturn
  \/ StopPropagation
  \/ PreventDefault

SpecTree == Init /\ [][NextTree]_vars

(* The program of SpecPassive works on "C" and its owner "P": it calls     *)
(* listen (passive or not, capture or not), unlisten and dispatch of both  *)
(* between dispatches; its callbacks call only the methods of the event.   *)
NextPassive ==
  \/ \E n \in {"P", "C"}, t \in Types, cb \in Callbacks, opts \in PassiveOptions :
       Depth = 0 /\ Listen(n, t, cb, opts)
  \/ \E n \in {"P", "C"}, t \in Types, cb \in Callbacks, capture \in BOOLEAN :
       Depth = 0 /\ Unlisten(n, t, cb, capture)
  \/ \E n \in {"P", "C"}, t \in Types : Depth = 0 /\ Dispatch(n, t)
  \/ CallbackReturn
  \/ StopPropagation
  \/ PreventDefault

SpecPassive == Init /\ [][NextPassive]_vars

(* The program of SpecRegistry only registers and removes listeners of     *)
(* "C", with every combination of options.                                 *)
NextRegistry ==
  \/ \E t \in Types, cb \in Callbacks, opts \in ListenOptions :
       Listen("C", t, cb, opts)
  \/ \E t \in Types, cb \in Callbacks, capture \in BOOLEAN :
       Unlisten("C", t, cb, capture)

SpecRegistry == Init /\ [][NextRegistry]_vars

(* The program of SpecBuckets registers and removes listeners (capture or  *)
(* not) of two event types on "C" and on its owner "P".                    *)
BucketTypes == {"x", "y"}

NextBuckets ==
  \/ \E n \in {"P", "C"}, t \in BucketTypes, cb \in Callbacks, opts \in CaptureOptions :
       Listen(n, t, cb, opts)
  \/ \E n \in {"P", "C"}, t \in BucketTypes, cb \in Callbacks, capture \in BOOLEAN :
       Unlisten(n, t, cb, capture)

SpecBuckets == Init /\ [][NextBuckets]_vars

(* The program of SpecLifecycle works on "C" and its owner "P": it calls   *)
(* listen (once or not), unlisten, dispatch and the destructor of both,    *)
(* between dispatches and from inside the callbacks, which catch the       *)
(* errors thrown by these calls or let them through.                       *)
LifecycleOptions == {opts \in OnceOptions : ~opts.capture}

NextLifecycle ==
  \/ \E n \in {"P", "C"}, t \in Types, cb \in Callbacks, opts \in LifecycleOptions :
       Listen(n, t, cb, opts)
  \/ \E n \in {"P", "C"}, t \in Types, cb \in Callbacks : Unlisten(n, t, cb, FALSE)
  \/ \E n \in {"P", "C"}, t \in Types : Dispatch(n, t)
  \/ \E n \in {"P", "C"} : Destruct(n)
  \/ CallbackReturn
  \/ Uncaught

SpecLifecycle == Init /\ [][NextLifecycle]_vars

(* The program of SpecUnlisten works on "C": it calls listen (capture or   *)
(* not) and dispatch between dispatches, and unlisten also from inside     *)
(* the callbacks.                                                          *)
NextUnlisten ==
  \/ \E t \in Types, cb \in Callbacks, opts \in CaptureOptions :
       Depth = 0 /\ Listen("C", t, cb, opts)
  \/ \E t \in Types, cb \in Callbacks, capture \in BOOLEAN :
       Unlisten("C", t, cb, capture)
  \/ \E t \in Types : Depth = 0 /\ Dispatch("C", t)
  \/ CallbackReturn

SpecUnlisten == Init /\ [][NextUnlisten]_vars

(* The program of SpecNested works on "C" and its owner "P": it calls      *)
(* listen (passive or not) between dispatches, and                         *)
(* dispatch of both also from inside the callbacks, which call the         *)
(* methods of the event as well.                                           *)
NestedOptions == {opts \in PassiveOptions : ~opts.capture}

NextNested ==
  \/ \E n \in {"P", "C"}, t \in Types, cb \in Callbacks, opts \in NestedOptions :
       Depth = 0 /\ Listen(n, t, cb, opts)
  \/ \E n \in {"P", "C"}, t \in Types : Dispatch(n, t)
  \/ CallbackReturn
  \/ StopPropagation
  \/ PreventDefault

SpecNested == Init /\ [][NextNested]_vars

-----------------------------------------------------------------------------
(* What the claims are stated over *)

\* the frames of the dispatches in progress
Frames == {stack[d] : d \in 1..Depth}

\* a dispatch has just returned; Done is its frame at the return statement
Returned == last.kind = "return"
Done == last.frame

\* the frames in progress and the one that has just returned
AllFrames == Frames \cup (IF Returned THEN {Done} ELSE {})

\* the array of type of node in the listeners maps regs, empty when none
Bucket(regs, node, type) ==
  IF MapHas(regs[node], type) THEN regs[node][type] ELSE << >>

\* an invocation as the claims name it: who fired, on which object, in
\* which phase
Fired(handler, phase, l) ==
  [handler |-> handler, phase |-> phase, callback |-> l.callback, capture |-> l.capture]

\* the invocations a frame has made
Trace(fr) ==
  [k \in 1..Len(fr.fired) |->
     Fired(fr.fired[k].handler, fr.fired[k].phase, fr.fired[k].listener)]

\* the listeners of node registered with the given capture flag, in the
\* order of the array
Registered(regs, node, type, phase, capture) ==
  LET Matches(l) == l.capture = capture /\ ~l.removed
      ls == SelectSeq(Bucket(regs, node, type), Matches)
  IN [k \in 1..Len(ls) |-> Fired(node, phase, ls[k])]

\* capture-registered listeners of ancestors[i], ..., ancestors[1]
RECURSIVE RootToTarget(_, _, _, _)
RootToTarget(regs, type, ancestors, i) ==
  IF i < 1 THEN << >>
  ELSE Registered(regs, ancestors[i], type, CAPTURING_PHASE, TRUE)
       \o RootToTarget(regs, type, ancestors, i - 1)

\* bubble-registered listeners of ancestors[i], ..., ancestors[n]
RECURSIVE TargetToRoot(_, _, _, _)
TargetToRoot(regs, type, ancestors, i) ==
  IF i > Len(ancestors) THEN << >>
  ELSE Registered(regs, ancestors[i], type, BUBBLING_PHASE, FALSE)
       \o TargetToRoot(regs, type, ancestors, i + 1)

\* the order of the claim: capture listeners root towards target, the
\* target's capture listeners, the target's bubble listeners, bubble
\* listeners target towards root
PropagationOrder(regs, node, type) ==
  RootToTarget(regs, type, getAncestors(node), Len(getAncestors(node)))
  \o Registered(regs, node, type, AT_TARGET, TRUE)
  \o Registered(regs, node, type, AT_TARGET, FALSE)
  \o TargetToRoot(regs, type, getAncestors(node), 1)

-----------------------------------------------------------------------------
(* C1: when a dispatch in which no listener stopped propagation returns,   *)
(* the invocations it made are, in order: the capture-registered listeners *)
(* of the ancestors from the root towards the target in the capturing      *)
(* phase, the target's capture-registered then bubble-registered listeners *)
(* at target, the bubble-registered listeners of the ancestors from the    *)
(* target towards the root in the bubbling phase. (The program of         *)
(* SpecTree does not change the listeners maps while a dispatch runs.)     *)
C1_PropagationOrder ==
  (Returned /\ ~Done.binder.stopped)
    => Trace(Done) = PropagationOrder(listeners, Done.node, Done.type)

\* a dispatch on "C" fired a listener of the root, then one of the parent,
\* both capturing, then one in the bubbling phase
C1_Witness ==
  /\ Returned /\ ~Done.binder.stopped /\ Done.node = "C"
  /\ Len(Done.fired) = 3
  /\ Done.fired[1].handler = "R" /\ Done.fired[1].phase = CAPTURING_PHASE
  /\ Done.fired[2].handler = "P" /\ Done.fired[2].phase = CAPTURING_PHASE
  /\ Done.fired[3].phase = BUBBLING_PHASE

\* the phases in which a listener that was not passive when invoked called
\* stopPropagation
StopIn(fr) == {c.phase : c \in {x \in fr.stops : ~x.passive}}

-----------------------------------------------------------------------------
(* C2: once a non-passive listener has called stopPropagation in the       *)
(* capturing phase, the dispatch invokes no listener at target and none in *)
(* the bubbling phase, and it returns false.                               *)
C2_StopInCapturing ==
  /\ \A fr \in AllFrames :
       CAPTURING_PHASE \in StopIn(fr)
         => \A k \in 1..Len(fr.fired) : fr.fired[k].phase = CAPTURING_PHASE
  /\ (Returned /\ CAPTURING_PHASE \in StopIn(Done)) => last.result = FALSE

\* a dispatch stopped while capturing has returned, and its target has a
\* bubble-registered listener
C2_Witness ==
  /\ Returned /\ CAPTURING_PHASE \in StopIn(Done)
  /\ Registered(listeners, Done.node, Done.type, AT_TARGET, FALSE) # << >>

-----------------------------------------------------------------------------
-----------------------------------------------------------------------------
(* C4: (as the doc comments of dispatch and dispatchEvent state it) a     *)
(* dispatch in which a listener prevented the event returns false.         *)
C4_PreventedReturnsFalse ==
  (Returned /\ Done.event.prevented) => last.result = FALSE

-----------------------------------------------------------------------------
(* C5: a listener registered with once, and not listened again since, is   *)
(* never invoked a second time, whether the dispatches follow one another  *)
(* or one is made from inside a callback.                                  *)
C5_OnceAtMostOnce ==
  \A fr \in AllFrames : \A k \in 1..Len(fr.fired) : ~fr.fired[k].again

-----------------------------------------------------------------------------
(* C6: while the callback of a listener that was passive when invoked is   *)
(* running, event.stopped and event.prevented are what they were when it   *)
(* was called, whatever it calls; and a dispatch in which no listener that *)
(* was not passive called stopPropagation fires every listener, in order,  *)
(* and returns true.                                                       *)
C6_PassiveHasNoEffect ==
  /\ \A fr \in Frames :
       (fr.fire = "callback" /\ Running(fr).passive)
         => /\ fr.binder.stopped = fr.before.stopped
            /\ fr.event.prevented = fr.before.prevented
  /\ (Returned /\ StopIn(Done) = {})
       => /\ last.result = TRUE
          /\ Trace(Done) = PropagationOrder(listeners, Done.node, Done.type)

\* a passive listener has called stopPropagation and preventDefault; or a
\* listener is running after a passive one called stopPropagation
C6_Witness ==
  \E fr \in Frames :
    /\ fr.fire = "callback" /\ Len(fr.fired) = 2
    /\ fr.fired[1].listener.passive
    /\ [phase |-> fr.fired[1].phase, passive |-> TRUE] \in fr.stops
    /\ Running(fr).passive /\ fr.calling = {"stop", "prevent"}

-----------------------------------------------------------------------------
(* C7: a dispatch that no listener stopped, and whose callbacks called     *)
(* neither listen, unlisten nor dispatch, has invoked exactly the          *)
(* listeners that matched at each visit (not removed, capture flag of the  *)
(* phase), each once, in the order of the arrays.                          *)
RECURSIVE Visited(_, _)
Visited(visits, i) ==
  IF i > Len(visits) THEN << >>
  ELSE [k \in 1..Len(visits[i].expect) |->
          Fired(visits[i].handler, visits[i].phase, visits[i].expect[k])]
       \o Visited(visits, i + 1)

C7_VisitFiresMatching ==
  (Returned /\ ~Done.binder.stopped /\ ~Done.reentered)
    => Trace(Done) = Visited(Done.visits, 1)

-----------------------------------------------------------------------------
(* C8: in a dispatch that no listener stopped, and whose callbacks called  *)
(* neither listen, unlisten nor dispatch, every listener that followed a   *)
(* once listener among the listeners matching at a visit was invoked       *)
(* exactly once in that visit.                                             *)
InvokedIn(fr, v, l) ==
  {k \in 1..Len(fr.fired) :
     /\ fr.fired[k].handler = v.handler
     /\ fr.fired[k].listener.capture = v.capture
     /\ fr.fired[k].listener.callback = l.callback}

C8_OnceRemovalKeepsPass ==
  (Returned /\ ~Done.binder.stopped /\ ~Done.reentered)
    => \A i \in 1..Len(Done.visits) :
         LET v == Done.visits[i]
         IN \A p \in 1..Len(v.expect), q \in 1..Len(v.expect) :
              (p < q /\ v.expect[p].once)
                => Cardinality(InvokedIn(Done, v, v.expect[q])) = 1

-----------------------------------------------------------------------------
(* C9: a listen call whose (callback, capture) is already registered sets  *)
(* the passive and once flags of that listener and changes nothing else:   *)
(* same length of the array, same position, the other listeners as they    *)
(* were; and making any listen call again right after it changes nothing.  *)
C9_Relisten(node, type, callback, opts) ==
  LET old == Bucket(listeners, node, type)
      new == Bucket(listeners', node, type)
      at == IndexOf(listeners[node], type, callback, opts.capture)
  IN /\ at > 0
          => /\ Len(new) = Len(old)
             /\ new[at] = [old[at] EXCEPT !.passive = opts.passive, !.once = opts.once]
             /\ \A k \in 1..Len(old) : k # at => new[k] = old[k]
     /\ listen(listeners'[node], type, callback, opts) = listeners'[node]

C9_RelistenUpdatesInPlace ==
  [][\A n \in Nodes, t \in Types, cb \in Callbacks, opts \in ListenOptions :
       Listen(n, t, cb, opts) => C9_Relisten(n, t, cb, opts)]_vars

\* a listen call has just updated the first of two listeners
C9_Witness ==
  /\ last.kind = "relisten" /\ last.at = 1
  /\ Len(Bucket(listeners, "C", "x")) = 2

-----------------------------------------------------------------------------
(* C10: no listeners map holds an empty array: an array exists for a type  *)
(* exactly when a listener that is not removed is registered for it.       *)
C10_NoEmptyBucket ==
  \A n \in Nodes : \A t \in DOMAIN listeners[n] :
    \E k \in 1..Len(listeners[n][t]) : ~listeners[n][t][k].removed

\* the array of "x" is gone: a once listener was removed after it fired, or
\* a callback has unlistened the last listener while its dispatch runs
C10_Witness ==
  /\ ~MapHas(listeners["C"], "x")
  /\ \/ Returned /\ Len(Done.fired) > 0 /\ Done.fired[1].listener.once
     \/ Depth > 0 /\ last.kind = "removed"

-----------------------------------------------------------------------------
(* C11: unlisten(type, callback, {capture}) of an object takes the         *)
(* listener (callback, capture) out of the array of type and changes       *)
(* nothing else: the other listeners of the array stay as they were and in *)
(* their order, the arrays of the other types and the listeners maps of    *)
(* the other objects are the same; when no such listener is registered     *)
(* nothing changes at all; and no error is thrown.                         *)
C11_Unlisten(node, type, callback, capture) ==
  LET Others(l) == ~(l.callback = callback /\ l.capture = capture)
  IN /\ \A n \in Nodes \ {node} : listeners'[n] = listeners[n]
     /\ \A t \in (DOMAIN listeners[node]) \ {type} :
          MapHas(listeners'[node], t) /\ listeners'[node][t] = listeners[node][t]
     /\ DOMAIN listeners'[node] \subseteq DOMAIN listeners[node]
     /\ Bucket(listeners', node, type) = SelectSeq(Bucket(listeners, node, type), Others)
     /\ IndexOf(listeners[node], type, callback, capture) = 0 => listeners' = listeners
     /\ last'.kind # "error"

C11_UnlistenRemovesOnlyItsKey ==
  [][\A n \in Nodes, t \in BucketTypes, cb \in Callbacks, capture \in BOOLEAN :
       Unlisten(n, t, cb, capture) => C11_Unlisten(n, t, cb, capture)]_vars

\* the second of the two listeners of "C" for "x" has just been removed and
\* the first is still there, while "C" also listens to "y" or "P" to "x"
C11_Witness ==
  /\ last.kind = "removed" /\ last.at = 2
  /\ Len(Bucket(listeners, "C", "x")) = 1
  /\ \/ Bucket(listeners, "C", "y") # << >>
     \/ Bucket(listeners, "P", "x") # << >>

-----------------------------------------------------------------------------
(* C12: listen and unlisten of an object that has no listeners map throw   *)
(* LISTENERS_MAP_MISSED and change nothing; a dispatch throws it when it   *)
(* calls fireListeners on such an object, and no dispatch goes on or       *)
(* returns after such a call; and whenever the error is thrown the         *)
(* listeners map of the object it names is missing: with the maps in       *)
(* place listen, unlisten and dispatch throw nothing.                      *)
Program(fr) == [fr EXCEPT !.reentered = FALSE]

C12_Throws(node) ==
  IF MapHas(listeners, node)
  THEN last'.kind # "error"
  ELSE /\ last'.kind = "error" /\ last'.node = node
       /\ listeners' = listeners
       /\ Depth' = Depth
       /\ \A d \in 1..Depth : Program(stack'[d]) = Program(stack[d])

C12_Dispatched(node, type) ==
  \/ Depth' = Depth + 1
  \/ /\ Depth' = Depth
     /\ last'.frame.node = node
     /\ IF \E k \in 1..Len(last'.frame.visits) : last'.frame.visits[k].missed
        THEN last'.kind = "error"
        ELSE last'.kind = "return"

C12_Calls ==
  /\ \A n \in Nodes, t \in Types, cb \in Callbacks, opts \in ListenOptions :
       Listen(n, t, cb, opts) => C12_Throws(n)
  /\ \A n \in Nodes, t \in Types, cb \in Callbacks, capture \in BOOLEAN :
       Unlisten(n, t, cb, capture) => C12_Throws(n)
  /\ \A n \in Nodes, t \in Types : Dispatch(n, t) => C12_Dispatched(n, t)

C12_Frames ==
  /\ \A fr \in Frames : \A k \in 1..Len(fr.visits) : ~fr.visits[k].missed
  /\ Returned => \A k \in 1..Len(Done.visits) : ~Done.visits[k].missed
  /\ last.kind = "error" =>
       /\ ~MapHas(listeners, last.node)
       /\ last.frame.loc = "throw" =>
            /\ last.frame.visits[Len(last.frame.visits)].missed
            /\ last.frame.visits[Len(last.frame.visits)].handler = last.node

C12_RegistryMissing == []C12_Frames /\ [][C12_Calls]_vars

\* a dispatch of "C" has thrown in the bubbling phase, at the owner "P"
\* whose destructor a listener of "C" had called
C12_Witness ==
  /\ last.kind = "error" /\ last.node = "P"
  /\ last.frame.loc = "throw" /\ last.frame.node = "C"
  /\ last.frame.binder.phase = BUBBLING_PHASE
  /\ Len(last.frame.fired) > 0

-----------------------------------------------------------------------------
(* C13: while a callback runs, event.target is the object dispatch was     *)
(* called on, event.current is the object whose listeners map holds the    *)
(* listener invoked, and event.phase is AT_TARGET when that object is the  *)
(* target, CAPTURING_PHASE when it is an ancestor and the listener is      *)
(* capture-registered, BUBBLING_PHASE when it is an ancestor and the       *)
(* listener is not; it is never NONE.                                      *)
IsAncestor(node, of) == \E k \in 1..Len(getAncestors(of)) : getAncestors(of)[k] = node

C13_Observed(fr) ==
  LET l == Running(fr)
      arr == Bucket(listeners, fr.binder.handler, fr.type)
  IN /\ fr.binder.target = fr.node
     /\ \E k \in 1..Len(arr) : arr[k] = l
     /\ fr.binder.handler # fr.node => IsAncestor(fr.binder.handler, fr.node)
     /\ fr.binder.phase =
          IF fr.binder.handler = fr.node THEN AT_TARGET
          ELSE IF l.capture THEN CAPTURING_PHASE ELSE BUBBLING_PHASE
     /\ fr.binder.phase # NONE

C13_TargetCurrentPhase ==
  \A fr \in Frames : fr.fire = "callback" => C13_Observed(fr)

\* a bubble listener of the owner of "C" runs, after a capture listener of an
\* ancestor and a listener of "C" itself
C13_Witness ==
  \E fr \in Frames :
    /\ fr.fire = "callback" /\ fr.node = "C" /\ Len(fr.fired) = 3
    /\ fr.fired[1].phase = CAPTURING_PHASE
    /\ fr.fired[2].phase = AT_TARGET
    /\ fr.binder.handler = "P" /\ fr.binder.phase = BUBBLING_PHASE

-----------------------------------------------------------------------------
(* C14: called by a listener that is not passive, preventDefault sets      *)
(* prevented and stopPropagation sets stopped, and each leaves everything  *)
(* else of the event (the other flag, phase, target, current, type) as it  *)
(* was; calling either again changes nothing.                              *)
C14_Stop ==
  (StopPropagation /\ ~Top.binder.passive)
    => /\ stack'[Depth].binder = [Top.binder EXCEPT !.stopped = TRUE]
       /\ stack'[Depth].event = Top.event
       /\ stopPropagation(stack'[Depth]) = stack'[Depth]

C14_Prevent ==
  (PreventDefault /\ ~Top.binder.passive)
    => /\ stack'[Depth].event = [Top.event EXCEPT !.prevented = TRUE]
       /\ stack'[Depth].binder = Top.binder
       /\ preventDefault(stack'[Depth]) = stack'[Depth]

C14_EventMethods == [][C14_Stop /\ C14_Prevent]_vars

\* a listener of the owner of "C" that is not passive has called both, in
\* the capturing phase of a dispatch of "C"
C14_Witness ==
  \E fr \in Frames :
    /\ fr.fire = "callback" /\ ~Running(fr).passive
    /\ fr.calling = {"stop", "prevent"}
    /\ fr.binder.stopped /\ fr.event.prevented
    /\ fr.binder.phase = CAPTURING_PHASE /\ fr.binder.target = "C"

-----------------------------------------------------------------------------
(* C15: once stopped is set in a dispatch it stays set until the dispatch  *)
(* returns, the dispatch invokes no further listener, and it returns       *)
(* false.                                                                  *)
C15_Latched(d) ==
  IF d <= Depth'
  THEN /\ stack'[d].binder.stopped
       /\ stack'[d].fired = stack[d].fired
  ELSE /\ last'.kind = "return"
       /\ last'.frame.binder.stopped
       /\ last'.frame.fired = stack[d].fired
       /\ last'.result = FALSE

C15_StoppedIsLatch ==
  [][\A d \in 1..Depth : stack[d].binder.stopped => C15_Latched(d)]_vars

\* a dispatch of "C" stopped by the first of its capture listeners has
\* returned: the other capture listener, the bubble listeners of "C" and
\* those of its owner were not invoked
C15_Witness ==
  /\ Returned /\ Done.node = "C" /\ Done.binder.stopped
  /\ Len(Done.fired) = 1 /\ Done.fired[1].listener.capture
  /\ StopIn(Done) = {AT_TARGET}
  /\ Len(Registered(listeners, "C", "x", AT_TARGET, TRUE)) = 2
  /\ \/ Registered(listeners, "C", "x", AT_TARGET, FALSE) # << >>
     \/ Registered(listeners, "P", "x", BUBBLING_PHASE, FALSE) # << >>

-----------------------------------------------------------------------------
(* C16: when the callbacks of a dispatch call unlisten, no listener is     *)
(* invoked once it has been removed, and every listener that matched when  *)
(* fireListeners was called and is still registered when the dispatch      *)
(* returns was invoked exactly once in that call, in the order of the      *)
(* array. (The callbacks of SpecUnlisten call nothing but unlisten, so a   *)
(* listener still registered was never removed.)                           *)
IsLive(regs, node, type, l) ==
  \E k \in 1..Len(Bucket(regs, node, type)) :
    SameListener(Bucket(regs, node, type)[k], l.callback, l.capture)

\* the listeners of a visit that are still registered, as invocations
Kept(v, type) ==
  LET Live(l) == IsLive(listeners, v.handler, type, l)
      ls == SelectSeq(v.expect, Live)
  IN [k \in 1..Len(ls) |-> Fired(v.handler, v.phase, ls[k])]

\* the invocations of a frame during a visit whose listener is still registered
KeptFired(fr, v) ==
  LET Mine(f) == /\ f.handler = v.handler /\ f.listener.capture = v.capture
                 /\ IsLive(listeners, v.handler, fr.type, f.listener)
      fs == SelectSeq(fr.fired, Mine)
  IN [k \in 1..Len(fs) |-> Fired(fs[k].handler, fs[k].phase, fs[k].listener)]

C16_KeptAreFired ==
  Returned => \A i \in 1..Len(Done.visits) :
                KeptFired(Done, Done.visits[i]) = Kept(Done.visits[i], Done.type)

C16_Invoked(d) ==
  LET fr == stack'[d]
  IN (fr.fire = "callback" /\ (d > Depth \/ Len(fr.fired) > Len(stack[d].fired)))
       => IsLive(listeners', fr.binder.handler, fr.type, Running(fr))

C16_ReentrantUnlisten ==
  []C16_KeptAreFired /\ [][\A d \in 1..Depth' : C16_Invoked(d)]_vars

-----------------------------------------------------------------------------
(* C17: the removal that follows the invocation of a once listener removes *)
(* that very listener and no other: when the listener invoked has already  *)
(* been removed during its callback and the same (callback, capture) has   *)
(* been registered anew, the new listener is still registered after the    *)
(* callback has returned.                                                  *)
C17_Renewed ==
  /\ InCallback
  /\ Top.listener.once /\ Top.listener.removed
  /\ IsLive(listeners, Top.binder.handler, Top.type, Top.listener)

C17_OnceRemovesItsEntry ==
  [][(CallbackReturn /\ C17_Renewed)
       => IsLive(listeners', Top.binder.handler, Top.type, Top.listener)]_vars

-----------------------------------------------------------------------------
(* C18: the listeners of an array are in the order of their registration:  *)
(* every step either leaves in the array a part of the listeners it had,   *)
(* in the same order and with no other (re-listen, unlisten, the removal   *)
(* of a once listener), or adds one listener after all those it had        *)
(* (listen of a new one).                                                  *)
Keys(arr) == [k \in 1..Len(arr) |-> [callback |-> arr[k].callback, capture |-> arr[k].capture]]

IsSubsequence(new, old) ==
  /\ \A i \in 1..Len(new) : \E a \in 1..Len(old) : old[a] = new[i]
  /\ \A i \in 1..Len(new), j \in 1..Len(new) :
       i < j => \E a \in 1..Len(old), b \in 1..Len(old) :
                  a < b /\ old[a] = new[i] /\ old[b] = new[j]

C18_Step(node, type) ==
  LET old == Keys(Bucket(listeners, node, type))
      new == Keys(Bucket(listeners', node, type))
  IN \/ IsSubsequence(new, old)
     \/ /\ Len(new) = Len(old) + 1
        /\ SubSeq(new, 1, Len(old)) = old
        /\ \A a \in 1..Len(old) : old[a] # new[Len(new)]

C18_Listened(node, type, callback, opts) ==
  LET old == Keys(Bucket(listeners, node, type))
      new == Keys(Bucket(listeners', node, type))
  IN IF IndexOf(listeners[node], type, callback, opts.capture) > 0
     THEN new = old
     ELSE new = Append(old, [callback |-> callback, capture |-> opts.capture])

C18_RegistrationOrder ==
  [][/\ \A n \in Nodes, t \in Types : C18_Step(n, t)
     /\ \A n \in Nodes, t \in Types, cb \in Callbacks, opts \in ListenOptions :
          Listen(n, t, cb, opts) => C18_Listened(n, t, cb, opts)]_vars

\* a dispatch has returned that invoked a once listener, now removed, and
\* the array still holds two listeners
C18_Witness ==
  /\ Returned /\ Len(Done.fired) > 0 /\ Done.fired[1].listener.once
  /\ ~IsLive(listeners, "C", "x", Done.fired[1].listener)
  /\ Len(Bucket(listeners, "C", "x")) = 2

-----------------------------------------------------------------------------
(* C19: every dispatch has its own binder and event: no step changes the   *)
(* stopped, prevented, passive, phase or handler of a dispatch other than  *)
(* the innermost one, whose callback is the code that runs; a dispatch     *)
(* made from a callback starts with stopped and prevented false whatever   *)
(* the flags of the dispatch that is running; and in every dispatch        *)
(* stopped is true exactly when one of its own listeners, not passive,     *)
(* called stopPropagation, which decides its result alone.                 *)
C19_OuterUnchanged(d) ==
  (d < Depth \/ Depth' > Depth)
    => /\ d <= Depth'
       /\ stack'[d].binder = stack[d].binder
       /\ stack'[d].event = stack[d].event

C19_Fresh ==
  (Depth' > Depth /\ stack'[Depth'].fire = "callback")
    => /\ stack'[Depth'].before = NoFlags
       /\ stack'[Depth'].binder.passive = Running(stack'[Depth']).passive

C19_Own ==
  /\ \A fr \in AllFrames : fr.binder.stopped = (StopIn(fr) # {})
  /\ Returned => last.result = (StopIn(Done) = {})

C19_OwnContext ==
  []C19_Own /\ [][C19_Fresh /\ \A d \in 1..Depth : C19_OuterUnchanged(d)]_vars

\* a callback has stopped its dispatch and made another one, in which a
\* listener has prevented the default and a passive one is running: the
\* flags of the two dispatches differ
C19_Witness ==
  /\ Depth = 2
  /\ stack[1].binder.stopped /\ ~stack[1].binder.passive /\ ~stack[1].event.prevented
  /\ stack[2].fire = "callback"
  /\ ~stack[2].binder.stopped /\ stack[2].binder.passive /\ stack[2].event.prevented

-----------------------------------------------------------------------------
(* C20: while a callback runs, binder.passive is the passive flag its      *)
(* listener had when it was invoked, whatever listeners ran before it: a   *)
(* call of stopPropagation or preventDefault sets its flag exactly when    *)
(* the listener is not passive.                                            *)
C20_Aligned ==
  \A fr \in Frames :
    fr.fire = "callback" => fr.binder.passive = Running(fr).passive

C20_Effect ==
  /\ StopPropagation
       => stack'[Depth].binder.stopped = (Top.binder.stopped \/ ~Running(Top).passive)
  /\ PreventDefault
       => stack'[Depth].event.prevented = (Top.event.prevented \/ ~Running(Top).passive)

C20_PassiveAligned == []C20_Aligned /\ [][C20_Effect]_vars

\* a listener that is not passive runs after a passive one that called
\* stopPropagation, and has stopped the dispatch and prevented the default
C20_Witness ==
  \E fr \in Frames :
    /\ fr.fire = "callback" /\ Len(fr.fired) = 2
    /\ fr.fired[1].listener.passive
    /\ [phase |-> fr.fired[1].phase, passive |-> TRUE] \in fr.stops
    /\ ~Running(fr).passive /\ ~fr.binder.passive
    /\ fr.binder.stopped /\ fr.event.prevented

-----------------------------------------------------------------------------
(* C21: every array of every listeners map holds at most one listener for  *)
(* a (callback, capture), and none whose removed flag is set.              *)
C21_UniqueAndLive ==
  \A n \in DOMAIN listeners : \A t \in DOMAIN listeners[n] :
    LET arr == listeners[n][t]
    IN /\ \A k \in 1..Len(arr) : ~arr[k].removed
       /\ \A i \in 1..Len(arr), j \in 1..Len(arr) :
            (arr[i].callback = arr[j].callback /\ arr[i].capture = arr[j].capture)
              => i = j

\* the callback that is running has just unlistened one of the two listeners
\* registered with it, and the other is still in the array
C21_Witness ==
  /\ InCallback /\ last.kind = "removed"
  /\ Len(Bucket(listeners, "C", "x")) = 1
  /\ Bucket(listeners, "C", "x")[1].callback = Running(Top).callback

-----------------------------------------------------------------------------
(* C22: a new listener that a callback registers for the fireListeners     *)
(* call that is running (same object, same type, same capture flag) is put *)
(* in the array that call iterates, after the listener that is running;    *)
(* and a dispatch that was not stopped returns only when every listener    *)
(* its callbacks registered for the call that was running or for one still *)
(* to come, and that was not unlistened since, has been invoked.           *)
C22_Appended(node, type, callback, opts) ==
  (/\ InCallback
   /\ MapHas(listeners, node)
   /\ IndexOf(listeners[node], type, callback, opts.capture) = 0
   /\ node = Top.binder.handler /\ type = Top.type /\ opts.capture = Top.capture)
    => LET arr == FireArray(stack'[Depth], listeners')
       IN \E k \in 1..Len(arr) :
            /\ k > Top.j
            /\ SameListener(arr[k], callback, opts.capture)

C22_AllInvoked ==
  (Returned /\ ~Done.binder.stopped) => Done.pending = {}

C22_ListenedInPassFires ==
  /\ []C22_AllInvoked
  /\ [][\A n \in Nodes, t \in Types, cb \in Callbacks, opts \in ListenOptions :
          Listen(n, t, cb, opts) => C22_Appended(n, t, cb, opts)]_vars

====
